---------------------------- MODULE Spec2Model ----------------------------
(***************************************************************************)
(* Model of struct-create (src/main.go): the type mapper goType, the       *)
(* identifier formatter formatName and the struct emitter writeStructs     *)
(* together with the part of main that reports its result.                 *)
(*                                                                         *)
(* Names (table names, column names, formatted identifiers) are sequences  *)
(* of one-character strings, so that formatName works on characters as the *)
(* code does.  Go type names, import paths and the configuration strings   *)
(* are TLA+ strings.  The generated text is a sequence of "lines", one     *)
(* record per piece of text the code writes; ByteLen gives the number of   *)
(* bytes each piece has in the real output.                                *)
(***************************************************************************)
EXTENDS Integers, Sequences, FiniteSets, TLC

VARIABLES
    schemas,        \* argument of writeStructs: the rows getSchema returned
    config,         \* the global config (PkgName, TagLabel)
    output,         \* the -out flag: "-" is standard output
    pc,             \* position of the process
    idx,            \* position of the range loop of writeStructs in schemas
    currentTable,   \* writeStructs' currentTable
    neededImports,  \* writeStructs' neededImports (the keys of the map)
    buffer,         \* writeStructs' buffer
    header,         \* writeStructs' header
    fileLength,     \* writeStructs' fileLength
    file,           \* the named output file on disk
    file0,          \* the named output file as it was when the run started
    stdout,         \* what the process wrote to standard output
    written,        \* outcome of header.WriteTo(file)
    result,         \* what writeStructs returned to main
    calls,          \* the results of this pass's goType calls, in order
    fatalErr,       \* the error given to log.Fatal, if any
    fcall,          \* a call of formatName on its own: argument and result
    gcall           \* a call of goType on its own: argument and result

vars == << schemas, config, output, pc, idx, currentTable, neededImports,
           buffer, header, fileLength, file, file0, stdout, written, result,
           calls, fatalErr, fcall, gcall >>

progVars == << schemas, config, output, pc, idx, currentTable, neededImports,
               buffer, header, fileLength, file, file0, stdout, written,
               result, calls, fatalErr >>

-----------------------------------------------------------------------------
(* Bounds of the model *)

\* longest input of writeStructs
MaxCols == 3

\* longest name given to formatName on its own
MaxLen == 4

-----------------------------------------------------------------------------
(* Characters and strings *)

Lower == << "a", "b", "c", "d", "e", "f", "g", "h", "i", "j", "k", "l", "m",
            "n", "o", "p", "q", "r", "s", "t", "u", "v", "w", "x", "y", "z" >>

Upper == << "A", "B", "C", "D", "E", "F", "G", "H", "I", "J", "K", "L", "M",
            "N", "O", "P", "Q", "R", "S", "T", "U", "V", "W", "X", "Y", "Z" >>

\* strings.ToUpper on a one-character ASCII string
ToUpper(c) ==
    IF \E k \in 1..Len(Lower) : Lower[k] = c
    THEN Upper[CHOOSE k \in 1..Len(Lower) : Lower[k] = c]
    ELSE c

\* strings.Split(name, sep) for a one-character sep: one more part than
\* there are separators, empty parts included ("" gives one empty part)
RECURSIVE Split(_, _)
Split(name, sep) ==
    IF \A k \in 1..Len(name) : name[k] # sep
    THEN << name >>
    ELSE LET k == CHOOSE j \in 1..Len(name) :
                     /\ name[j] = sep
                     /\ \A h \in 1..(j - 1) : name[h] # sep
         IN << SubSeq(name, 1, k - 1) >>
                \o Split(SubSeq(name, k + 1, Len(name)), sep)

\* strings.Replace(p, old, new, 1) for a one-character old: the first
\* occurrence of old is replaced, p is returned as it is when there is none
ReplaceFirst(p, old, new) ==
    IF \A k \in 1..Len(p) : p[k] # old
    THEN p
    ELSE LET k == CHOOSE j \in 1..Len(p) :
                     /\ p[j] = old
                     /\ \A h \in 1..(j - 1) : p[h] # old
         IN SubSeq(p, 1, k - 1) \o << new >> \o SubSeq(p, k + 1, Len(p))

\* The range loop of formatName over parts[k..]: p[0] of an empty part is
\* an index out of range, a run-time panic
RECURSIVE formatParts(_, _, _)
formatParts(parts, k, newName) ==
    IF k > Len(parts)
    THEN [panic |-> FALSE, val |-> newName]
    ELSE IF Len(parts[k]) = 0
         THEN [panic |-> TRUE, val |-> << >>]
         ELSE formatParts(parts, k + 1,
                  newName \o ReplaceFirst(parts[k], parts[k][1],
                                          ToUpper(parts[k][1])))

formatName(name) == formatParts(Split(name, "_"), 1, << >>)

-----------------------------------------------------------------------------
(* The type mapper *)

NoErr == [isNil |-> TRUE, msg |-> << >>]

\* errors.New("No compatible datatype for " + n + " found")
ErrNoType(col) ==
    [isNil |-> FALSE,
     msg |-> << "No compatible datatype for ", col.TableName, ".",
                col.ColumnName, " found" >>]

StringTypes == {"varchar", "enum", "text", "longtext", "mediumtext"}
BlobTypes   == {"blob", "mediumblob", "longblob"}
TimeTypes   == {"date", "time", "datetime", "timestamp"}
IntTypes    == {"tinyint", "smallint", "int", "mediumint", "bigint"}
FloatTypes  == {"float", "decimal", "double"}

\* goType up to the end of its switch: gt and requiredImport
goTypeSwitch(col) ==
    LET requiredImport == IF col.IsNullable = "YES" THEN "database/sql" ELSE ""
    IN  CASE col.DataType \in StringTypes ->
               [gt  |-> IF col.IsNullable = "YES"
                        THEN "sql.NullString" ELSE "string",
                imp |-> requiredImport]
          [] col.DataType \in BlobTypes ->
               [gt |-> "[]byte", imp |-> requiredImport]
          [] col.DataType \in TimeTypes ->
               [gt |-> "time.Time", imp |-> "time"]
          [] col.DataType \in IntTypes ->
               [gt  |-> IF col.IsNullable = "YES"
                        THEN "sql.NullInt64" ELSE "int64",
                imp |-> requiredImport]
          [] col.DataType \in FloatTypes ->
               [gt  |-> IF col.IsNullable = "YES"
                        THEN "sql.NullFloat64" ELSE "float64",
                imp |-> requiredImport]
          [] OTHER ->
               [gt |-> "", imp |-> requiredImport]

\* goType with a fallback type where the switch found none
goTypeFallback(col) ==
    LET sw == goTypeSwitch(col)
    IN  [gt |-> IF sw.gt = "" THEN "interface{}" ELSE sw.gt,
         imp |-> sw.imp, err |-> NoErr]

\* goType returning requiredImport as it stands beside the error
goTypeLeakImport(col) ==
    LET sw == goTypeSwitch(col)
    IN  IF sw.gt = ""
        THEN [gt |-> "", imp |-> sw.imp, err |-> ErrNoType(col)]
        ELSE [gt |-> sw.gt, imp |-> sw.imp, err |-> NoErr]

\* goType from the test of gt after the switch to its return
goType(col) ==
    LET sw == goTypeSwitch(col)
    IN  IF sw.gt = ""
        THEN [gt |-> "", imp |-> "", err |-> ErrNoType(col)]
        ELSE [gt |-> sw.gt, imp |-> sw.imp, err |-> NoErr]

-----------------------------------------------------------------------------
(* The pieces of text writeStructs writes *)

CloseLine == [kind |-> "close"]                       \* "}\n\n"
EndLine == [kind |-> "end"]                           \* "}"
OpenLine(name) == [kind |-> "open", name |-> name]    \* "type N struct{\n"
PackageLine(pkg) == [kind |-> "package", name |-> pkg]
ImportOpen == [kind |-> "imports"]                    \* "import (\n"
ImportLine(imp) == [kind |-> "import", name |-> imp]
ImportClose == [kind |-> "endimports"]                \* ")\n\n"

\* the tag built from the field's name instead of the column's
TagOfFormatted(cs) ==
    IF Len(config.TagLabel) > 0
    THEN << config.TagLabel, formatName(cs.ColumnName).val >>
    ELSE << >>

\* the tag written after a field: none when config.TagLabel is empty
TagOf(cs) ==
    IF Len(config.TagLabel) > 0
    THEN << config.TagLabel, cs.ColumnName >>
    ELSE << >>

FieldLine(cs, fieldName, gt) ==
    [kind |-> "field", name |-> fieldName, type |-> gt, tag |-> TagOf(cs)]

\* the number of bytes of one piece of text
ByteLen(l) ==
    CASE l.kind = "close" -> 3
      [] l.kind = "end" -> 1
      [] l.kind = "open" -> 5 + Len(l.name) + 9
      [] l.kind = "package" -> 8 + Len(l.name) + 2
      [] l.kind = "imports" -> 9
      [] l.kind = "import" -> 2 + Len(l.name) + 2
      [] l.kind = "endimports" -> 3
      [] l.kind = "field" ->
           2 + Len(l.name) + Len(l.type)
             + (IF l.tag = << >> THEN 0
                ELSE 2 + Len(l.tag[1]) + 2 + Len(l.tag[2]) + 2)
             + 1

RECURSIVE TextLen(_)
TextLen(ls) == IF ls = << >> THEN 0 ELSE ByteLen(Head(ls)) + TextLen(Tail(ls))

\* the set replaced by the last import instead of extended by it
AddImportOverwrite(imports, requiredImport) ==
    IF requiredImport # "" THEN {requiredImport} ELSE imports

\* neededImports[requiredImport] = true, when requiredImport is not empty
AddImport(imports, requiredImport) ==
    IF requiredImport # "" THEN imports \cup {requiredImport} ELSE imports

\* a block started for every row
NewTableAlways(cs, current) == TRUE

\* the condition under which writeStructs starts a type block
NewTable(cs, current) == cs.TableName # current

\* the block before never closed
TableOpenNever(current) == FALSE

\* the condition under which writeStructs closes the block before
TableOpen(current) == current # << >>

\* the orders in which ranging over the map can give its keys
Orders(S) ==
    { o \in [1..Cardinality(S) -> S] : \A a, b \in 1..Cardinality(S) :
                                           a # b => o[a] # o[b] }

ImportBlock(order) ==
    << ImportOpen >> \o [k \in 1..Len(order) |-> ImportLine(order[k])]
                     \o << ImportClose >>


-----------------------------------------------------------------------------
(* Inputs *)

RECURSIVE SeqsUpTo(_, _)
SeqsUpTo(S, n) ==
    IF n = 0 THEN { << >> }
    ELSE LET shorter == SeqsUpTo(S, n - 1)
         IN shorter \cup { Append(s, x) : s \in { t \in shorter : Len(t) = n - 1 },
                                          x \in S }

\* rows writeStructs is run on: three table names (one of them empty), and
\* a column whose import is none, database/sql or time, or that has no type
TableNames == { << >>, << "t" >>, << "u" >> }
ColumnNames == { << "a", "_", "b" >> }
ColumnKinds == { << "int", "NO" >>, << "int", "YES" >>, << "date", "NO" >>,
                 << "geometry", "NO" >> }

Columns ==
    { [TableName |-> t, ColumnName |-> c, IsNullable |-> k[2], DataType |-> k[1]] :
        t \in TableNames, c \in ColumnNames, k \in ColumnKinds }

NoFile == [exists |-> FALSE, data |-> << >>]
OldFile == [exists |-> TRUE, data |-> << [kind |-> "old"] >>]

NotWritten == [done |-> FALSE, lines |-> 0, failed |-> FALSE]
NotReturned == [returned |-> FALSE, n |-> 0, err |-> NoErr]
OkLine(n) == [kind |-> "ok", n |-> n]                 \* "Ok %d\n"

NoCall == [done |-> FALSE, panic |-> FALSE, val |-> << >>]
NoType == [done |-> FALSE, gt |-> "", imp |-> "", err |-> NoErr]

\* the characters of the names formatName is run on
Chars == { "a", "b", "_" }

\* the columns goType is run on: every type of its switch and three others
OtherTypes == { "geometry", "json", "" }
AllColumns ==
    [TableName : { << "t" >>, << "u" >> },
     ColumnName : { << "i", "d" >>, << "a", "_", "b" >> },
     IsNullable : { "YES", "NO" },
     DataType : StringTypes \cup BlobTypes \cup TimeTypes \cup IntTypes
                    \cup FloatTypes \cup OtherTypes]

-----------------------------------------------------------------------------
(* The program: main calls writeStructs on the rows of getSchema *)

\* the local variables of writeStructs before its loop, nothing written yet
Fresh ==
    /\ idx = 1
    /\ currentTable = << >>
    /\ neededImports = {}
    /\ buffer = << >>
    /\ header = << >>
    /\ fileLength = 0
    /\ file = file0
    /\ stdout = << >>
    /\ written = NotWritten
    /\ result = NotReturned
    /\ calls = << >>
    /\ fatalErr = NoErr

Init ==
    /\ schemas \in SeqsUpTo(Columns, MaxCols)
    /\ config \in { [PkgName |-> "DbStructs", TagLabel |-> l] : l \in {"", "db"} }
    /\ output \in { "-", "structs.go" }
    /\ file0 \in (IF output = "-" THEN { NoFile } ELSE { NoFile, OldFile })
    /\ pc = "loop"
    /\ Fresh
    /\ fcall = [arg |-> << >>, ret |-> NoCall]
    /\ gcall = [arg |-> << >>, ret |-> NoType]

\* One iteration of the range loop of writeStructs.  A panic of formatName
\* and log.Fatal both end the process where they happen.
Iterate ==
    /\ pc = "loop"
    /\ idx <= Len(schemas)
    /\ LET cs == schemas[idx]
           tn == formatName(cs.TableName)
           closed == IF NewTable(cs, currentTable) /\ TableOpen(currentTable)
                     THEN Append(buffer, CloseLine)
                     ELSE buffer
           opened == IF NewTable(cs, currentTable)
                     THEN Append(closed, OpenLine(tn.val))
                     ELSE closed
           r == goType(cs)
           fname == formatName(cs.ColumnName)
       IN  IF NewTable(cs, currentTable) /\ tn.panic
           THEN /\ pc' = "panic"
                /\ buffer' = closed
                /\ UNCHANGED << idx, currentTable, neededImports, calls, fatalErr >>
           ELSE /\ neededImports' = AddImport(neededImports, r.imp)
                /\ calls' = Append(calls, r)
                /\ IF ~r.err.isNil
                   THEN /\ pc' = "fatal"
                        /\ fatalErr' = r.err
                        /\ buffer' = opened
                        /\ UNCHANGED << idx, currentTable >>
                   ELSE IF fname.panic
                   THEN /\ pc' = "panic"
                        /\ buffer' = opened
                        /\ UNCHANGED << idx, currentTable, fatalErr >>
                   ELSE /\ buffer' = Append(opened, FieldLine(cs, fname.val, r.gt))
                        /\ currentTable' = cs.TableName
                        /\ idx' = idx + 1
                        /\ UNCHANGED << pc, fatalErr >>
    /\ UNCHANGED << schemas, config, output, header, fileLength, file, file0,
                    stdout, written, result, fcall, gcall >>

\* After the loop: the closing brace, then the header with the package
\* line, the import block and the buffer, and its length
Compose ==
    /\ pc = "loop"
    /\ idx > Len(schemas)
    /\ buffer' = Append(buffer, EndLine)
    /\ \E order \in Orders(neededImports) :
          header' = << PackageLine(config.PkgName) >>
                      \o (IF Cardinality(neededImports) > 0
                          THEN ImportBlock(order) ELSE << >>)
                      \o buffer'
    /\ fileLength' = TextLen(header')
    /\ pc' = "sink"
    /\ UNCHANGED << schemas, config, output, idx, currentTable, neededImports,
                    file, file0, stdout, written, result, calls, fatalErr,
                    fcall, gcall >>

\* The destination: os.Create of the named file, which may fail, or os.Stdout
OpenSink ==
    /\ pc = "sink"
    /\ IF fileLength > 0
       THEN \/ /\ output # "-"
               /\ file' = [exists |-> TRUE, data |-> << >>]
               /\ pc' = "write"
               /\ UNCHANGED fatalErr
            \/ /\ output # "-"
               /\ fatalErr' = [isNil |-> FALSE, msg |-> << "open ", output >>]
               /\ pc' = "fatal"
               /\ UNCHANGED file
            \/ /\ output = "-"
               /\ pc' = "write"
               /\ UNCHANGED << file, fatalErr >>
       ELSE /\ pc' = "write"
            /\ UNCHANGED << file, fatalErr >>
    /\ UNCHANGED << schemas, config, output, idx, currentTable, neededImports,
                    buffer, header, fileLength, file0, stdout, written, result,
                    calls, fcall, gcall >>

\* header.WriteTo(file), when there is text: the destination takes all of
\* it, or the write fails after k of its pieces; the error WriteTo returns
\* is dropped.  Then return fileLength, nil.
WriteSink ==
    /\ pc = "write"
    /\ IF fileLength > 0
       THEN \E k \in 0..Len(header) :
               /\ written' = [done |-> TRUE, lines |-> k,
                              failed |-> k < Len(header)]
               /\ IF output # "-"
                  THEN /\ file' = [exists |-> TRUE, data |-> SubSeq(header, 1, k)]
                       /\ UNCHANGED stdout
                  ELSE /\ stdout' = stdout \o SubSeq(header, 1, k)
                       /\ UNCHANGED file
       ELSE UNCHANGED << written, file, stdout >>
    /\ result' = [returned |-> TRUE, n |-> fileLength, err |-> NoErr]
    /\ pc' = "returned"
    /\ UNCHANGED << schemas, config, output, idx, currentTable, neededImports,
                    buffer, header, fileLength, file0, calls, fatalErr,
                    fcall, gcall >>

\* main after writeStructs: log.Fatal on an error, else the Ok line when
\* the output is a named file
Report ==
    /\ pc = "returned"
    /\ IF ~result.err.isNil
       THEN /\ pc' = "fatal"
            /\ fatalErr' = result.err
            /\ UNCHANGED stdout
       ELSE /\ pc' = "done"
            /\ stdout' = IF output # "-"
                         THEN Append(stdout, OkLine(result.n))
                         ELSE stdout
            /\ UNCHANGED fatalErr
    /\ UNCHANGED << schemas, config, output, idx, currentTable, neededImports,
                    buffer, header, fileLength, file, file0, written, result,
                    calls, fcall, gcall >>

Next == Iterate \/ Compose \/ OpenSink \/ WriteSink \/ Report

Spec == Init /\ [][Next]_vars

-----------------------------------------------------------------------------
(* formatName on its own *)

Idle ==
    /\ schemas = << >>
    /\ config = [PkgName |-> "DbStructs", TagLabel |-> "db"]
    /\ output = "-"
    /\ file0 = NoFile
    /\ pc = "idle"
    /\ Fresh

FormatInit ==
    /\ Idle
    /\ fcall \in { [arg |-> a, ret |-> NoCall] : a \in SeqsUpTo(Chars, MaxLen) }
    /\ gcall = [arg |-> << >>, ret |-> NoType]

CallFormatName ==
    /\ ~fcall.ret.done
    /\ fcall' = [fcall EXCEPT !.ret =
                    [done |-> TRUE, panic |-> formatName(fcall.arg).panic,
                     val |-> formatName(fcall.arg).val]]
    /\ UNCHANGED << progVars, gcall >>

FormatSpec == FormatInit /\ [][CallFormatName]_vars

-----------------------------------------------------------------------------
(* goType on its own *)

TypeInit ==
    /\ Idle
    /\ fcall = [arg |-> << >>, ret |-> NoCall]
    /\ gcall \in { [arg |-> c, ret |-> NoType] : c \in AllColumns }

CallGoType ==
    /\ ~gcall.ret.done
    /\ gcall' = [gcall EXCEPT !.ret =
                    [done |-> TRUE, gt |-> goType(gcall.arg).gt,
                     imp |-> goType(gcall.arg).imp,
                     err |-> goType(gcall.arg).err]]
    /\ UNCHANGED << progVars, fcall >>

TypeSpec == TypeInit /\ [][CallGoType]_vars


-----------------------------------------------------------------------------
(* Properties of goType and formatName *)

\* the data types of the mapping table
MappingTable ==
    StringTypes \cup BlobTypes \cup TimeTypes \cup IntTypes \cup FloatTypes

\* the import the mapping table gives a column
TableImport(col) ==
    IF col.DataType \in TimeTypes THEN "time"
    ELSE IF col.DataType \in BlobTypes THEN ""
    ELSE IF col.IsNullable = "YES" THEN "database/sql"
    ELSE ""

\* C1: for every column whose data type is in the mapping table, nullable
\* or not, goType returns a non-empty type name and the import of the
\* table: database/sql only for nullable string, integer and float columns,
\* time for temporal columns, none for blob columns.
C1_TableImports ==
    (gcall.ret.done /\ gcall.arg.DataType \in MappingTable)
        => /\ gcall.ret.gt # ""
           /\ gcall.ret.err.isNil
           /\ gcall.ret.imp = TableImport(gcall.arg)

\* the parts of a name that are not empty
NonEmptyParts(name) == SelectSeq(Split(name, "_"), LAMBDA p : Len(p) > 0)

\* the parts joined, the first character of each in upper case
RECURSIVE Capitalised(_)
Capitalised(parts) ==
    IF parts = << >> THEN << >>
    ELSE << ToUpper(Head(parts)[1]) >> \o Tail(Head(parts))
            \o Capitalised(Tail(parts))

\* C2: formatName crashes on no name, and an empty segment contributes
\* nothing: the result is the non-empty segments joined, the first
\* character of each in upper case ("" gives "", "a__b" gives "AB").
C2_NoCrashEmptySegments ==
    fcall.ret.done
        => /\ ~fcall.ret.panic
           /\ fcall.ret.val = Capitalised(NonEmptyParts(fcall.arg))

\* C5: for every column whose data type is not in the mapping table,
\* nullable or not, goType returns an error naming tableName.columnName,
\* an empty type name and an empty import, so that adding the returned
\* import to the emitter's import set adds nothing.
C5_UnmappedIsError ==
    (gcall.ret.done /\ gcall.arg.DataType \notin MappingTable)
        => /\ ~gcall.ret.err.isNil
           /\ SubSeq(gcall.ret.err.msg, 2, 4)
                = << gcall.arg.TableName, ".", gcall.arg.ColumnName >>
           /\ gcall.ret.gt = ""
           /\ gcall.ret.imp = ""
           /\ AddImport({}, gcall.ret.imp) = {}

\* goType has returned for a nullable column of a type outside the table
C5_Witness ==
    /\ gcall.ret.done
    /\ gcall.arg.DataType = "geometry"
    /\ gcall.arg.IsNullable = "YES"
    /\ ~gcall.ret.err.isNil


-----------------------------------------------------------------------------
(* Properties of writeStructs *)

\* writeStructs has finished its pass and composed the text it will write
Composed == header # << >>

AllMappable(s) == \A k \in 1..Len(s) : s[k].DataType \in MappingTable

TablesNamed(s) == \A k \in 1..Len(s) : s[k].TableName # << >>

\* all rows of each table are adjacent
Contiguous(s) ==
    \A a, b, c \in 1..Len(s) :
        (a < b /\ b < c /\ s[a].TableName = s[c].TableName)
            => s[b].TableName = s[a].TableName

Count(lines, kind) == Cardinality({ k \in 1..Len(lines) : lines[k].kind = kind })

FieldsOf(lines) == SelectSeq(lines, LAMBDA l : l.kind = "field")

\* C3: on an empty sequence of columns the output is the package
\* declaration only: no import block, no type declaration, no block opener
\* or closer.
C3_EmptyInputPackageOnly ==
    (schemas = << >> /\ Composed)
        => header = << PackageLine(config.PkgName) >>

\* C4: if any column of the input has a data type outside the mapping
\* table, at whatever position, nothing is written to the output and the
\* output file is neither created nor truncated.
C4_NoOutputOnUnmappable ==
    (\E k \in 1..Len(schemas) : schemas[k].DataType \notin MappingTable)
        => /\ file = file0
           /\ stdout = << >>
           /\ ~written.done
           /\ ~result.returned

\* the run has died on an unmappable third column, after two columns that
\* mapped, with a named output file that existed before
C4_Witness ==
    /\ pc = "fatal"
    /\ Len(schemas) = 3
    /\ idx = 3
    /\ schemas[1].DataType \in MappingTable
    /\ schemas[2].DataType \in MappingTable
    /\ schemas[3].DataType \notin MappingTable
    /\ fatalErr = ErrNoType(schemas[3])
    /\ output # "-"
    /\ file0 = OldFile

\* the table names of the input, each once, in the order they first appear
RECURSIVE TablesInOrder(_)
TablesInOrder(s) ==
    IF s = << >> THEN << >>
    ELSE LET before == TablesInOrder(SubSeq(s, 1, Len(s) - 1))
             t == s[Len(s)].TableName
         IN IF \E k \in 1..Len(before) : before[k] = t
            THEN before ELSE Append(before, t)

RowsOf(s, t) == Cardinality({ k \in 1..Len(s) : s[k].TableName = t })

\* the number of field lines that follow the opener at position p
FieldsAfter(lines, p) ==
    Cardinality({ q \in (p + 1)..Len(lines) :
                    \A h \in (p + 1)..q : lines[h].kind = "field" })

\* the number of field lines of each type block of the text, in order
BlockCounts(lines) ==
    LET ps == SelectSeq([k \in 1..Len(lines) |-> k],
                        LAMBDA k : lines[k].kind = "open")
    IN [j \in 1..Len(ps) |-> FieldsAfter(lines, ps[j])]

BlocksMatchTables ==
    LET ts == TablesInOrder(schemas)
    IN BlockCounts(header) = [j \in 1..Len(ts) |-> RowsOf(schemas, ts[j])]

\* C6 as stated: for a contiguous input of mappable columns the output has
\* as many type blocks as the input has distinct table names, and each
\* block as many field lines as the input has rows of that table.
C6_BlocksMatchTables ==
    (Composed /\ Contiguous(schemas) /\ AllMappable(schemas))
        => BlocksMatchTables

\* C6 amended: the same for a contiguous input of mappable columns none of
\* which has the empty table name.
C6_BlocksMatchNamedTables ==
    (Composed /\ Contiguous(schemas) /\ AllMappable(schemas)
       /\ TablesNamed(schemas))
        => BlocksMatchTables

\* the run is done on two rows of one table followed by one of another
C6_Witness ==
    /\ pc = "done"
    /\ ~written.failed
    /\ Len(schemas) = 3
    /\ AllMappable(schemas)
    /\ schemas[1].TableName = << "t" >>
    /\ schemas[2].TableName = << "t" >>
    /\ schemas[3].TableName = << "u" >>
    /\ BlockCounts(header) = << 2, 1 >>

\* the non-empty imports the goType calls of this pass returned
Returned == { calls[k].imp : k \in 1..Len(calls) } \ { "" }

\* C7: after a successful pass the import block lists exactly the non-empty
\* imports the goType calls of the pass returned, each once, and the block
\* is in the output if and only if there is such an import.
C7_ImportsExact ==
    Composed =>
        LET block == SubSeq(header, 2, Len(header) - Len(buffer))
            names == [k \in 1..(Len(block) - 2) |-> block[k + 1]]
        IN  /\ Count(header, "import") + Count(header, "imports")
                 + Count(header, "endimports") = Len(block)
            /\ (Returned = {}) <=> (block = << >>)
            /\ Returned # {} =>
                  /\ Head(block) = ImportOpen
                  /\ block[Len(block)] = ImportClose
                  /\ \A k \in 1..Len(names) : names[k].kind = "import"
                  /\ { names[k].name : k \in 1..Len(names) } = Returned
                  /\ Len(names) = Cardinality(Returned)

\* the pass is over three columns, two of them needing database/sql and
\* one needing time
C7_Witness ==
    /\ Composed
    /\ Len(calls) = 3
    /\ Cardinality({ k \in 1..3 : calls[k].imp = "database/sql" }) = 2
    /\ Cardinality({ k \in 1..3 : calls[k].imp = "time" }) = 1
    /\ Count(header, "import") = 2

\* C8: with an empty config.TagLabel no field line carries a tag; with a
\* non-empty one every field line, the first of each block included,
\* carries the tag made of TagLabel and the raw column name of its row,
\* which is not the formatted field name.
C8_TagsFromRawNames ==
    LET fs == FieldsOf(buffer)
    IN  /\ \A k \in 1..Len(fs) :
              IF config.TagLabel = ""
              THEN fs[k].tag = << >>
              ELSE /\ fs[k].tag = << config.TagLabel, schemas[k].ColumnName >>
                   /\ fs[k].tag[2] # fs[k].name
        /\ Composed => FieldsOf(header) = fs

\* the run is done with the tag label db on three rows in two blocks
C8_Witness ==
    /\ pc = "done"
    /\ config.TagLabel = "db"
    /\ Len(FieldsOf(header)) = 3
    /\ Count(header, "open") = 2
    /\ \A k \in 1..3 : FieldsOf(header)[k].tag = << "db", << "a", "_", "b" >> >>

\* C9: when the destination cannot be created, or the write to it fails or
\* is incomplete, writeStructs does not return a nil error and main does
\* not print the Ok line.
C9_SinkFailureFatal ==
    ((written.done /\ written.failed) \/ (pc = "fatal" /\ Composed))
        => /\ ~(result.returned /\ result.err.isNil)
           /\ Count(stdout, "ok") = 0

\* the body of the text for rows k.. of s: a block for each maximal run of
\* adjacent rows of one table
RECURSIVE ExpectedFrom(_, _)
ExpectedFrom(s, k) ==
    IF k > Len(s) THEN << >>
    ELSE LET starts == k = 1 \/ s[k - 1].TableName # s[k].TableName
             ends == k = Len(s) \/ s[k + 1].TableName # s[k].TableName
         IN (IF starts THEN << OpenLine(formatName(s[k].TableName).val) >>
                       ELSE << >>)
            \o << FieldLine(s[k], formatName(s[k].ColumnName).val,
                            goType(s[k]).gt) >>
            \o (IF ends THEN << IF k = Len(s) THEN EndLine ELSE CloseLine >>
                        ELSE << >>)
            \o ExpectedFrom(s, k + 1)

\* the number of blocks open after the first n pieces of the buffer
Depth(n) ==
    Cardinality({ k \in 1..n : buffer[k].kind = "open" })
        - Cardinality({ k \in 1..n : buffer[k].kind \in {"close", "end"} })

\* C10: for a non-empty input of mappable columns with non-empty table
\* names, contiguous or not, at any point of the pass at most one block is
\* open and no field line lies outside a block, what is written so far is
\* the start of, and in the end is, the sequence of blocks that has one
\* block per maximal run of adjacent rows of one table, in input order,
\* each with its opener, its field lines and one closer.
C10_WellNestedRuns ==
    (schemas # << >> /\ AllMappable(schemas) /\ TablesNamed(schemas))
        => LET expected == ExpectedFrom(schemas, 1)
           IN  /\ \A n \in 0..Len(buffer) : Depth(n) \in {0, 1}
               /\ \A n \in 1..Len(buffer) :
                     buffer[n].kind = "field" => Depth(n - 1) = 1
               /\ buffer = SubSeq(expected, 1, Len(buffer))
               /\ Composed => buffer = expected

\* the run is done on rows of table t, then u, then t again
C10_Witness ==
    /\ pc = "done"
    /\ Len(schemas) = 3
    /\ AllMappable(schemas)
    /\ schemas[1].TableName = << "t" >>
    /\ schemas[2].TableName = << "u" >>
    /\ schemas[3].TableName = << "t" >>
    /\ Count(buffer, "open") = 3

=============================================================================
